---- MODULE Spec2Model ----
(***************************************************************************)
(* Citation lifecycle engine of Jarvis_AI: the Citation Registry           *)
(* (CitationManager.__init__, _create_initial_citations, get_llm_context)  *)
(* and the Response Citation Rewriter (CitationManager.process_response),  *)
(* driven in the order of query_rag.                                       *)
(*                                                                         *)
(* Text is a sequence of atoms.  An atom is one character ("[", "]", a     *)
(* digit, " ", "x" for any other character) or one of the fixed literals   *)
(* the regular expressions of the code are written with ("Source ",        *)
(* "__TEMP_SOURCE_", "__", a tag, an entity, the context delimiter).       *)
(* Every regular expression is matched on atoms the way re matches it on   *)
(* characters: leftmost, non-overlapping, greedy digit runs.               *)
(*                                                                         *)
(* Further components, each with a specification of its own: the           *)
(* Navigation Resolver (DocumentService.parse_chunk_id, get_document_info) *)
(* in SpecNav, the paragraph splitter (split_paragraph_into_chunks,        *)
(* split_into_sentences) in SpecSegment, and the ingestion (load_documents,*)
(* split_documents, calculate_chunk_ids, add_to_chroma) as passes of one   *)
(* process in SpecIngest and of two processes in SpecConcurrent.  The text *)
(* of a page is a sequence of words, each a shape and a length in          *)
(* characters, so that the lengths the splitter compares are the lengths   *)
(* of the code.                                                            *)
(*                                                                         *)
(* SpecAgain calls process_response once more on the text it returned,     *)
(* SpecDetect is detect_paragraphs on one page, SpecBatch one call of      *)
(* add_to_chroma on a chunk list of any make, and SpecEnhance a query      *)
(* whose citations enhance_citations_with_navigation gives navigation      *)
(* records.                                                                *)
(***************************************************************************)
EXTENDS Integers, Sequences, FiniteSets, TLC

\* ------------------------------------------------------------ bounds
\* Largest validity bound k_chunks explored (query_rag fixes it to 5).
MaxK == 2
\* Largest number of pieces a model response is concatenated from.
MaxPieces == 3
\* Largest number of colon-delimited fields of an identity string looked up.
MaxFields == 4
\* Largest number of words of a paragraph handed to the splitter.
MaxWords == 3
\* Largest number of ingestion passes started.
MaxPasses == 2
\* Largest number of changes made to the documents under DATA_PATH.
MaxChanges == 1
\* Largest number of chunks of a list handed to add_to_chroma by itself.
MaxChunks == 3

\* ------------------------------------------------------------ atoms
\* An Optional value is a set of at most one element; None is the empty one.
None == {}

Some(v) == {v}

TheValue(o) == CHOOSE v \in o : TRUE
KeyError == "KeyError"

DigitAtoms == <<"0", "1", "2", "3", "4", "5", "6", "7", "8", "9">>

IsDigit(a) == \E i \in 1..10 : DigitAtoms[i] = a

DigitValue(a) == (CHOOSE i \in 1..10 : DigitAtoms[i] = a) - 1

\* \s of the regular expressions.
IsSpace(a) == a \in {" ", "\n"}

\* int(s) for a run of digits s.
RECURSIVE DigitsToNat(_)
DigitsToNat(s) ==
  IF s = <<>> THEN 0
  ELSE 10 * DigitsToNat(SubSeq(s, 1, Len(s) - 1)) + DigitValue(s[Len(s)])

\* str(n) for an int n >= 0, as an f-string formats it: no leading zero.
RECURSIVE NatToDigits(_)
NatToDigits(n) ==
  IF n < 10 THEN <<DigitAtoms[n + 1]>>
  ELSE NatToDigits(n \div 10) \o <<DigitAtoms[(n % 10) + 1]>>

\* Index of the last atom of the maximal digit run that starts at i (i - 1: none).
RECURSIVE DigitRunEnd(_, _)
DigitRunEnd(t, i) ==
  IF i <= Len(t) /\ IsDigit(t[i]) THEN DigitRunEnd(t, i + 1) ELSE i - 1

\* The text a pattern f'\[Source {n}\]' matches, and the final marker form.
SourceMarker(n) == <<"[", "Source ">> \o NatToDigits(n) \o <<"]">>

\* f"__TEMP_SOURCE_{n}__"
TempPlaceholder(n) == <<"__TEMP_SOURCE_">> \o NatToDigits(n) \o <<"__">>

\* ------------------------------------------------------------ regular expressions
\* r'\[Source (\d+)\]' tried at position i: index of the closing "]" (0: no match).
MatchSourceAt(t, i) ==
  IF i + 3 <= Len(t) /\ t[i] = "[" /\ t[i + 1] = "Source "
  THEN LET e == DigitRunEnd(t, i + 2)
       IN IF e >= i + 2 /\ e + 1 <= Len(t) /\ t[e + 1] = "]" THEN e + 1 ELSE 0
  ELSE 0

\* re.findall(r'\[Source (\d+)\]', t) from position i on: the matches, left to
\* right, each with its position and the int of its digit group.
RECURSIVE FindAllSourceFrom(_, _)
FindAllSourceFrom(t, i) ==
  IF i > Len(t) THEN <<>>
  ELSE LET e == MatchSourceAt(t, i)
       IN IF e > 0
          THEN <<[pos |-> i, num |-> DigitsToNat(SubSeq(t, i + 2, e - 1))]>>
               \o FindAllSourceFrom(t, e + 1)
          ELSE FindAllSourceFrom(t, i + 1)

FindAllSource(t) == FindAllSourceFrom(t, 1)

\* re.sub(pat, repl, t) for a pattern without metacharacters, from position i on.
RECURSIVE ReSubLiteralFrom(_, _, _, _)
ReSubLiteralFrom(t, i, pat, repl) ==
  IF i > Len(t) THEN <<>>
  ELSE IF i + Len(pat) - 1 <= Len(t) /\ SubSeq(t, i, i + Len(pat) - 1) = pat
       THEN repl \o ReSubLiteralFrom(t, i + Len(pat), pat, repl)
       ELSE <<t[i]>> \o ReSubLiteralFrom(t, i + 1, pat, repl)

ReSubLiteral(t, pat, repl) == ReSubLiteralFrom(t, 1, pat, repl)

\* r'\[(\d+)\]' tried at position i: index of the closing "]" (0: no match).
MatchBareAt(t, i) ==
  IF i + 2 <= Len(t) /\ t[i] = "["
  THEN LET e == DigitRunEnd(t, i + 1)
       IN IF e >= i + 1 /\ e + 1 <= Len(t) /\ t[e + 1] = "]" THEN e + 1 ELSE 0
  ELSE 0

\* re.sub(r'\[(\d+)\]', '', t) from position i on.
RECURSIVE RemoveBareFrom(_, _)
RemoveBareFrom(t, i) ==
  IF i > Len(t) THEN <<>>
  ELSE LET e == MatchBareAt(t, i)
       IN IF e > 0 THEN RemoveBareFrom(t, e + 1)
          ELSE <<t[i]>> \o RemoveBareFrom(t, i + 1)

RemoveBare(t) == RemoveBareFrom(t, 1)

\* The atom's last character is whitespace: a whitespace atom, or a literal that
\* is written with a trailing space.
EndsInSpace(a) == IsSpace(a) \/ a \in {"Source ", "source ", "Page "}

\* re.sub(r'\s+', ' ', t): every whitespace run becomes one space.  A run that
\* starts with the trailing space of a literal keeps that space only.
RECURSIVE CollapseWhitespaceFrom(_, _)
CollapseWhitespaceFrom(t, i) ==
  IF i > Len(t) THEN <<>>
  ELSE IF IsSpace(t[i])
       THEN IF i > 1 /\ EndsInSpace(t[i - 1]) THEN CollapseWhitespaceFrom(t, i + 1)
            ELSE <<" ">> \o CollapseWhitespaceFrom(t, i + 1)
       ELSE <<t[i]>> \o CollapseWhitespaceFrom(t, i + 1)

CollapseWhitespace(t) == CollapseWhitespaceFrom(t, 1)

\* str.rstrip() / str.lstrip() / str.strip()
RECURSIVE RStrip(_)
RStrip(t) ==
  IF t # <<>> /\ IsSpace(t[Len(t)]) THEN RStrip(SubSeq(t, 1, Len(t) - 1)) ELSE t

RECURSIVE LStrip(_)
LStrip(t) ==
  IF t # <<>> /\ IsSpace(t[1]) THEN LStrip(SubSeq(t, 2, Len(t))) ELSE t

Strip(t) == LStrip(RStrip(t))

\* str.split(sep) for a one-atom separator: the parts between the separators.
RECURSIVE SplitOn(_, _)
SplitOn(t, sep) ==
  IF \E i \in 1..Len(t) : t[i] = sep
  THEN LET i == CHOOSE j \in 1..Len(t) : t[j] = sep /\ \A h \in 1..(j - 1) : t[h] # sep
       IN <<SubSeq(t, 1, i - 1)>> \o SplitOn(SubSeq(t, i + 1, Len(t)), sep)
  ELSE <<t>>

\* sep.join(parts)
RECURSIVE JoinWith(_, _)
JoinWith(parts, sep) ==
  IF parts = <<>> THEN <<>>
  ELSE IF Len(parts) = 1 THEN parts[1]
       ELSE parts[1] \o sep \o JoinWith(SubSeq(parts, 2, Len(parts)), sep)

\* ------------------------------------------------------------ content normalizer
\* Ends-with and the text left once a suffix of n atoms is cut.
EndsWith(t, suffix) ==
  Len(suffix) <= Len(t) /\ SubSeq(t, Len(t) - Len(suffix) + 1, Len(t)) = suffix

DropLast(t, n) == SubSeq(t, 1, Len(t) - n)

\* Length of the digit run t ends with.
RECURSIVE TrailingDigits(_)
TrailingDigits(t) ==
  IF t # <<>> /\ IsDigit(t[Len(t)]) THEN 1 + TrailingDigits(DropLast(t, 1)) ELSE 0

\* Tags r'<[^>]+>' matches, each one atom of the content alphabet.
IsTag(a) == a \in {"<b>", "</b>", "<p>", "<br/>"}

\* html_entities of strip_html_tags.
EntityTable ==
  [e \in {"&nbsp;", "&amp;", "&lt;", "&gt;", "&quot;", "&#39;", "&apos;", "&hellip;",
          "&mdash;", "&ndash;", "&rsquo;", "&lsquo;", "&rdquo;", "&ldquo;"} |->
     CASE e = "&nbsp;" -> " "
       [] e = "&amp;" -> "&"
       [] e = "&lt;" -> "<"
       [] e = "&gt;" -> ">"
       [] e \in {"&quot;", "&rdquo;", "&ldquo;"} -> "\""
       [] e \in {"&#39;", "&apos;", "&rsquo;", "&lsquo;"} -> "'"
       [] e = "&hellip;" -> "..."
       [] e = "&mdash;" -> "--"
       [] OTHER -> "-"]

RECURSIVE RemoveTags(_)
RemoveTags(t) ==
  IF t = <<>> THEN <<>>
  ELSE IF IsTag(t[1]) THEN RemoveTags(Tail(t)) ELSE <<t[1]>> \o RemoveTags(Tail(t))

ReplaceEntities(t) ==
  [i \in 1..Len(t) |-> IF t[i] \in DOMAIN EntityTable THEN EntityTable[t[i]] ELSE t[i]]

strip_html_tags(text) ==
  IF text = <<>> THEN text
  ELSE Strip(CollapseWhitespace(ReplaceEntities(RemoveTags(text))))

\* filename.replace('.pdf', '').replace('.txt', '').replace('.docx', '')
RECURSIVE BaseFilename(_)
BaseFilename(f) ==
  IF f = <<>> THEN <<>>
  ELSE IF f[1] \in {".pdf", ".txt", ".docx"} THEN BaseFilename(Tail(f))
       ELSE <<f[1]>> \o BaseFilename(Tail(f))

\* re.sub(rf'\s*{name}\s*$', '', t)
RemoveTrailingName(t, name) ==
  LET r == RStrip(t)
  IN IF EndsWith(r, name) THEN RStrip(DropLast(r, Len(name))) ELSE t

\* re.sub(rf'\s*{name}\s*\d+\s*$', '', t)
RemoveTrailingNameNumber(t, name) ==
  LET r == RStrip(t)
      d == TrailingDigits(r)
      q == RStrip(DropLast(r, d))
  IN IF d >= 1 /\ EndsWith(q, name) THEN RStrip(DropLast(q, Len(name))) ELSE t

\* re.sub(r'\s*\d{3,4}\s*$', '', t): a trailing run of 3 or 4 digits goes with the
\* whitespace before it; of a longer run the last 4 digits go.
RemoveTrailingNumber(t) ==
  LET r == RStrip(t)
      d == TrailingDigits(r)
  IN IF d < 3 THEN t
     ELSE IF d <= 4 THEN RStrip(DropLast(r, d)) ELSE DropLast(r, 4)

\* re.sub(r'\s*Page \d+.*$', '', t) and re.sub(r'\s*p\.\s*\d+.*$', '', t): the text
\* from the first footer word that a number follows (after optional whitespace
\* when ws) is cut, with the whitespace before it.
FooterAt(t, i, word, ws) ==
  /\ t[i] = word
  /\ LET j == IF ws THEN Len(t) - Len(LStrip(SubSeq(t, i + 1, Len(t)))) + 1 ELSE i + 1
     IN j <= Len(t) /\ IsDigit(t[j])

RemoveFooter(t, word, ws) ==
  IF \E i \in 1..Len(t) : FooterAt(t, i, word, ws)
  THEN LET i == CHOOSE j \in 1..Len(t) :
                  FooterAt(t, j, word, ws) /\ \A h \in 1..(j - 1) : ~FooterAt(t, h, word, ws)
       IN RStrip(SubSeq(t, 1, i - 1))
  ELSE t

\* re.sub(r'\s*\d+/\d+\s*$', '', t)
RemoveTrailingFraction(t) ==
  LET r == RStrip(t)
      d == TrailingDigits(r)
      q == DropLast(r, d)
      n == IF q # <<>> /\ q[Len(q)] = "/" THEN TrailingDigits(DropLast(q, 1)) ELSE 0
  IN IF d >= 1 /\ n >= 1 THEN RStrip(DropLast(q, 1 + n)) ELSE t

\* CitationManager._remove_filename_references: patterns_to_remove applied in order.
remove_filename_references(content, filename) ==
  LET base_filename == BaseFilename(filename)
      c1 == RemoveTrailingName(content, filename)
      c2 == RemoveTrailingName(c1, base_filename)
      c3 == RemoveTrailingNameNumber(c2, base_filename)
      c4 == RemoveTrailingNumber(c3)
      c5 == RemoveFooter(c4, "Page ", FALSE)
      c6 == RemoveFooter(c5, "p.", TRUE)
      c7 == RemoveTrailingFraction(c6)
      c8 == RStrip(c7)
  IN Strip(c8)

\* round(1 - score, 3) if score is not None else None.  A distance is counted in
\* ten-thousandths and a relevance in thousandths, rounded to the nearest (a tie,
\* which no distance of SearchPool produces, to the even digit).
RoundScore(score) ==
  IF score = None THEN None
  ELSE LET x == 10000 - TheValue(score)
           q == x \div 10
           r == x % 10
       IN Some(IF r > 5 \/ (r = 5 /\ q % 2 = 1) THEN q + 1 ELSE q)

\* ------------------------------------------------------------ citation registry
\* file_path.split("/")[-1] if "/" in file_path else file_path
FilenameOf(file_path) ==
  LET parts == SplitOn(file_path, "/") IN parts[Len(parts)]

\* The Citation built for the result (doc, score) of rank i.  The atom " (para "
\* stands for " (" followed by the pilcrow sign of the page reference.
MakeCitation(i, result) ==
  LET source_id == IF result.doc.id = None THEN <<"Unknown">> ELSE TheValue(result.doc.id)
      source_parts == SplitOn(source_id, ":")
      filename == IF Len(source_parts) >= 2 THEN FilenameOf(source_parts[1])
                  ELSE <<"Unknown Document">>
      page_ref ==
        IF Len(source_parts) >= 4
        THEN source_parts[2] \o <<" (para ">> \o source_parts[3] \o <<".">>
             \o source_parts[4] \o <<")">>
        ELSE IF Len(source_parts) >= 3
             THEN source_parts[2] \o <<" (para ">> \o source_parts[3] \o <<")">>
             ELSE IF Len(source_parts) >= 2 THEN source_parts[2] ELSE <<"N/A">>
      clean_content == remove_filename_references(strip_html_tags(result.doc.page_content),
                                                  filename)
  IN [source_num |-> i, filename |-> filename, page |-> page_ref,
      source_id |-> source_id, relevance_score |-> RoundScore(result.score),
      content |-> clean_content]

\* Variant: enumerate(search_results) counts from 0.
create_initial_citations_from_zero(results) ==
  [i \in 1..Len(results) |-> MakeCitation(i - 1, results[i])]

\* CitationManager._create_initial_citations: enumerate(search_results, 1).
create_initial_citations(results) == [i \in 1..Len(results) |-> MakeCitation(i, results[i])]

\* {c.source_num: c for c in self.all_citations}: a later entry wins.
BuildLookup(citations) ==
  [n \in {citations[i].source_num : i \in 1..Len(citations)} |->
     citations[CHOOSE i \in 1..Len(citations) :
                 /\ citations[i].source_num = n
                 /\ \A j \in 1..Len(citations) : citations[j].source_num = n => j <= i]]

\* The fixed delimiter of get_llm_context, one atom.
ContextDelimiter == "\n\n---\n\n"

\* f"[Source {c.source_num}] {c.content}"
ContextBlock(c) == SourceMarker(c.source_num) \o <<" ">> \o c.content

\* Variant: the blocks are joined last citation first.
get_llm_context_reversed(citations) ==
  JoinWith([i \in 1..Len(citations) |-> ContextBlock(citations[Len(citations) + 1 - i])],
           <<ContextDelimiter>>)

\* CitationManager.get_llm_context
get_llm_context(citations) ==
  JoinWith([i \in 1..Len(citations) |-> ContextBlock(citations[i])], <<ContextDelimiter>>)

\* ------------------------------------------------------------ response rewriter
\* cited_original_nums: the int of every match, duplicates kept.
CitedOriginalNums(response_text) ==
  LET found == FindAllSource(response_text) IN [i \in 1..Len(found) |-> found[i].num]

\* The loop over cited_original_nums: the numbers not yet seen and in 1..k, in
\* order of first appearance.
RECURSIVE UsedNumsFrom(_, _, _, _)
UsedNumsFrom(cited, i, seen, k) ==
  IF i > Len(cited) THEN <<>>
  ELSE IF cited[i] \notin seen /\ 1 <= cited[i] /\ cited[i] <= k
       THEN <<cited[i]>> \o UsedNumsFrom(cited, i + 1, seen \cup {cited[i]}, k)
       ELSE UsedNumsFrom(cited, i + 1, seen, k)

\* Variant: the seen set is never consulted, so a repeated number is kept each time.
RECURSIVE UsedNumsRepeated(_, _)
UsedNumsRepeated(cited, k) ==
  IF cited = <<>> THEN <<>>
  ELSE IF 1 <= cited[1] /\ cited[1] <= k
       THEN <<cited[1]>> \o UsedNumsRepeated(Tail(cited), k)
       ELSE UsedNumsRepeated(Tail(cited), k)

\* Variant: the valid numbers in order of original rank, not of first appearance.
RECURSIVE RankOrder(_, _, _)
RankOrder(nums, n, k) ==
  IF n > k THEN <<>>
  ELSE IF n \in nums THEN <<n>> \o RankOrder(nums, n + 1, k) ELSE RankOrder(nums, n + 1, k)

UsedNumsByRank(cited, k) == RankOrder({cited[i] : i \in 1..Len(cited)}, 1, k)

UsedNums(cited, k) == UsedNumsFrom(cited, 1, {}, k)

\* Step 1: for original_num, new_num in renumber_map.items(): [Source original_num]
\* becomes the placeholder of new_num.  used[i] is the original number whose new
\* number is i.
RECURSIVE PlaceholderPass(_, _, _)
PlaceholderPass(text, used, i) ==
  IF i > Len(used) THEN text
  ELSE PlaceholderPass(ReSubLiteral(text, SourceMarker(used[i]), TempPlaceholder(i)),
                       used, i + 1)

\* Step 2: for num in cited_original_nums: an out-of-range number's markers go.
RECURSIVE InvalidPass(_, _, _, _)
InvalidPass(text, cited, i, k) ==
  IF i > Len(cited) THEN text
  ELSE IF cited[i] < 1 \/ cited[i] > k
       THEN InvalidPass(ReSubLiteral(text, SourceMarker(cited[i]), <<>>), cited, i + 1, k)
       ELSE InvalidPass(text, cited, i + 1, k)

\* Step 3: every placeholder becomes [Source new_num].
RECURSIVE FinalPass(_, _, _)
FinalPass(text, used, i) ==
  IF i > Len(used) THEN text
  ELSE FinalPass(ReSubLiteral(text, TempPlaceholder(i), SourceMarker(i)), used, i + 1)

\* Steps 1 to 4 on the response text.
RenumberText(response_text, cited, used, k) ==
  LET step1 == PlaceholderPass(response_text, used, 1)
      step2 == InvalidPass(step1, cited, 1, k)
      step25 == RemoveBare(step2)
      step3 == FinalPass(step25, used, 1)
  IN Strip(CollapseWhitespace(step3))

\* The RenumberedCitation of new number new_num for a registry citation.
MakeRenumbered(new_num, original_citation) ==
  [new_source_num |-> new_num,
   original_source_num |-> original_citation.source_num,
   filename |-> original_citation.filename,
   page |-> original_citation.page,
   relevance_score |-> original_citation.relevance_score,
   content |-> original_citation.content]

\* Variant: the registry is indexed by the new number instead of the original one.
FinalCitationsByNewNum(used, registry) ==
  [i \in 1..Len(used) |-> MakeRenumbered(i, registry[i])]

\* final_citations: enumerate(used_citations_ordered, 1).
FinalCitations(used, registry) ==
  [i \in 1..Len(used) |-> MakeRenumbered(i, registry[used[i]])]

\* Variant: no early return when no valid citation is used.
process_response_always_rewrites(registry, k, response_text) ==
  LET cited == CitedOriginalNums(response_text)
      used == UsedNums(cited, k)
  IN IF \E i \in 1..Len(used) : used[i] \notin DOMAIN registry
     THEN [outcome |-> KeyError, renumbered_response_text |-> <<>>,
           used_citations |-> <<>>]
     ELSE [outcome |-> "returned",
           renumbered_response_text |-> RenumberText(response_text, cited, used, k),
           used_citations |-> FinalCitations(used, registry)]

\* CitationManager.process_response.  self.lookup[num] raises KeyError for a
\* number in 1..k_chunks the registry holds no citation for.
process_response(registry, k, response_text) ==
  LET cited == CitedOriginalNums(response_text)
      used == UsedNums(cited, k)
  IN IF \E i \in 1..Len(used) : used[i] \notin DOMAIN registry
     THEN [outcome |-> KeyError, renumbered_response_text |-> <<>>,
           used_citations |-> <<>>]
     ELSE IF used = <<>>
          THEN [outcome |-> "returned", renumbered_response_text |-> response_text,
                used_citations |-> <<>>]
          ELSE [outcome |-> "returned",
                renumbered_response_text |-> RenumberText(response_text, cited, used, k),
                used_citations |-> FinalCitations(used, registry)]

\* ------------------------------------------------------------ inputs
\* Retrieved chunks the store can return: (Document, distance).
SearchPool ==
  { [doc |-> [id |-> Some(<<"data", "/", "a", ".pdf", ":", "3", ":", "1", ":", "2">>),
              page_content |-> <<"<b>", "w", "</b>", " ", "\n", "&amp;", " ", "a", ".pdf">>],
     score |-> Some(2504)],
    [doc |-> [id |-> None,
              page_content |-> <<"w", "\n", "v", " ", "Page ", "2", " ", "1", "3", "1", "1">>],
     score |-> None] }

\* similarity_search_with_score(query, k): at most k distinct chunks, ranked.
RECURSIVE RankedResults(_)
RankedResults(n) ==
  IF n = 0 THEN {<<>>}
  ELSE LET S == RankedResults(n - 1)
       IN S \cup {Append(s, r) : s \in {q \in S : Len(q) = n - 1},
                                 r \in SearchPool}

SearchResultSets ==
  {s \in RankedResults(MaxK) : \A i, j \in 1..Len(s) : i # j => s[i] # s[j]}

\* What a model response is concatenated from: [Source n] for n up to one past the
\* largest bound, a marker with a leading zero, a bare numeric marker, a
\* placeholder literal, a character and a space.
Pieces ==
  {SourceMarker(n) : n \in 1..(MaxK + 1)}
    \cup {<<"[", "Source ", "0", "1", "]">>, <<"[", "1", "]">>, TempPlaceholder(1),
          <<"x">>, <<" ">>}

RECURSIVE PieceTexts(_)
PieceTexts(n) ==
  IF n = 0 THEN {<<>>}
  ELSE LET S == PieceTexts(n - 1) IN S \cup {s \o p : s \in S, p \in Pieces}

Responses == PieceTexts(MaxPieces)

\* Text that resembles a marker without matching r'\[Source (\d+)\]': lowercase
\* "source", a second space before the number, parentheses, a non-numeric id.
Lookalikes ==
  { <<"[", "source ", "1", "]">>,
    <<"[", "Source ", " ", "2", "]">>,
    <<"(", "Source ", "1", ")">>,
    <<"[", "Source ", "x", "]">> }

\* What a response with lookalikes is concatenated from.
LookalikePieces == Lookalikes \cup {SourceMarker(1), <<"x">>, <<" ">>}

RECURSIVE LookalikeTexts(_)
LookalikeTexts(n) ==
  IF n = 0 THEN {<<>>}
  ELSE LET S == LookalikeTexts(n - 1) IN S \cup {s \o p : s \in S, p \in LookalikePieces}

LookalikeResponses == LookalikeTexts(MaxPieces)

\* ------------------------------------------------------------ state machine
VARIABLES
  pc,                       \* position in query_rag
  search_results,           \* results of the similarity search
  k_chunks,                 \* self.k_chunks
  all_citations,            \* self.all_citations
  lookup,                   \* self.lookup
  context_text,             \* context handed to the model
  response_text,            \* the model's response
  processed_response,       \* what process_response gave
  processed_again,          \* what process_response gave for the text it returned
  nav_pc,                   \* position of a navigation lookup
  chunk_id,                 \* the identity string handed to the resolver
  data_dir,                 \* the document root exists
  data_files,               \* names of the files under the document root
  location_info,            \* what parse_chunk_id gave
  document_info,            \* what get_document_info gave
  nav_citation,             \* the registry's citation for the same identity
  enh_pc,                   \* position of a query whose citations get navigation
  retrieved,                \* the stored chunks the search of that query gave
  citations_dict,           \* the "citations" list query_rag returned
  enhanced_citations,       \* what enhance_citations_with_navigation gave
  seg_pc,                   \* position of a paragraph split
  paragraph,                \* the paragraph handed to split_paragraph_into_chunks
  para_chunks,              \* the chunks it gave
  page_text,                \* the text of a page handed to detect_paragraphs
  detected,                 \* the paragraphs it gave
  ingest_pc,                \* position of each ingestion pass
  files,                    \* pages of the documents under DATA_PATH
  db,                       \* the Chroma collection: id -> page_content
  inserted,                 \* times each id was handed to db.add_documents
  documents,                \* documents loaded by each pass
  chunks_with_ids,          \* chunks of each pass, ids assigned
  existing_ids,             \* ids each pass read from the collection
  new_chunks,               \* chunks each pass found not stored yet
  prev_documents,           \* documents of the latest completed pass
  passes,                   \* passes completed
  changes                   \* changes made to the documents

citation_vars == <<pc, search_results, k_chunks, all_citations, lookup, context_text,
                   response_text, processed_response, processed_again>>

nav_vars == <<nav_pc, chunk_id, data_dir, data_files, location_info, document_info,
              nav_citation, enh_pc, retrieved, citations_dict, enhanced_citations>>

seg_vars == <<seg_pc, paragraph, para_chunks, page_text, detected>>

ingest_vars == <<ingest_pc, files, db, inserted, documents, chunks_with_ids,
                 existing_ids, new_chunks, prev_documents, passes, changes>>

vars == <<citation_vars, nav_vars, seg_vars, ingest_vars>>

\* No query has its citations enhanced.
EnhanceIdle ==
  /\ enh_pc = "idle"
  /\ retrieved = <<>>
  /\ citations_dict = <<>>
  /\ enhanced_citations = <<>>

\* A component that takes no part in a specification stays as constructed.
NavIdle ==
  /\ nav_pc = "idle"
  /\ chunk_id = <<>>
  /\ data_dir = FALSE
  /\ data_files = {}
  /\ location_info = None
  /\ document_info = None
  /\ nav_citation = None
  /\ EnhanceIdle

SegIdle ==
  /\ seg_pc = "idle"
  /\ paragraph = <<>>
  /\ para_chunks = <<>>
  /\ page_text = <<>>
  /\ detected = <<>>

IngestIdle ==
  /\ ingest_pc = <<>>
  /\ files = <<>>
  /\ db = <<>>
  /\ inserted = <<>>
  /\ documents = <<>>
  /\ chunks_with_ids = <<>>
  /\ existing_ids = <<>>
  /\ new_chunks = <<>>
  /\ prev_documents = None
  /\ passes = 0
  /\ changes = 0

NoResponse == [outcome |-> "none", renumbered_response_text |-> <<>>, used_citations |-> <<>>]

\* No query is in progress.
CitationIdle ==
  /\ pc = "idle"
  /\ k_chunks = 0
  /\ search_results = <<>>
  /\ all_citations = <<>>
  /\ lookup = <<>>
  /\ context_text = <<>>
  /\ response_text = <<>>
  /\ processed_response = NoResponse
  /\ processed_again = NoResponse

\* query_rag after the search: k results at most.
Init ==
  /\ pc = "searched"
  /\ k_chunks \in 0..MaxK
  /\ search_results \in {s \in SearchResultSets : Len(s) <= k_chunks}
  /\ all_citations = <<>>
  /\ lookup = <<>>
  /\ context_text = <<>>
  /\ response_text = <<>>
  /\ processed_response = NoResponse
  /\ processed_again = NoResponse
  /\ NavIdle /\ SegIdle /\ IngestIdle

\* CitationManager(results, k_chunks)
Construct ==
  /\ pc = "searched"
  /\ all_citations' = create_initial_citations(search_results)
  /\ lookup' = BuildLookup(all_citations')
  /\ pc' = "constructed"
  /\ UNCHANGED <<search_results, k_chunks, context_text, response_text, processed_response>>
  /\ UNCHANGED processed_again
  /\ UNCHANGED <<nav_vars, seg_vars, ingest_vars>>

\* context_text = citation_manager.get_llm_context()
GetLlmContext ==
  /\ pc = "constructed"
  /\ context_text' = get_llm_context(all_citations)
  /\ pc' = "prompted"
  /\ UNCHANGED <<search_results, k_chunks, all_citations, lookup, response_text,
                 processed_response>>
  /\ UNCHANGED processed_again
  /\ UNCHANGED <<nav_vars, seg_vars, ingest_vars>>

\* response_text = model.invoke(prompt): any text.
InvokeModel ==
  /\ pc = "prompted"
  /\ \E t \in Responses : response_text' = t
  /\ pc' = "responded"
  /\ UNCHANGED <<search_results, k_chunks, all_citations, lookup, context_text,
                 processed_response>>
  /\ UNCHANGED processed_again
  /\ UNCHANGED <<nav_vars, seg_vars, ingest_vars>>

\* processed_response = citation_manager.process_response(response_text)
ProcessResponse ==
  /\ pc = "responded"
  /\ processed_response' = process_response(lookup, k_chunks, response_text)
  /\ pc' = IF processed_response'.outcome = KeyError THEN "raised" ELSE "done"
  /\ UNCHANGED <<search_results, k_chunks, all_citations, lookup, context_text,
                 response_text>>
  /\ UNCHANGED processed_again
  /\ UNCHANGED <<nav_vars, seg_vars, ingest_vars>>

Next == Construct \/ GetLlmContext \/ InvokeModel \/ ProcessResponse

Spec == Init /\ [][Next]_vars

\* response_text = model.invoke(prompt): a text with marker lookalikes.
InvokeModelLookalike ==
  /\ pc = "prompted"
  /\ \E t \in LookalikeResponses : response_text' = t
  /\ pc' = "responded"
  /\ UNCHANGED <<search_results, k_chunks, all_citations, lookup, context_text,
                 processed_response>>
  /\ UNCHANGED processed_again
  /\ UNCHANGED <<nav_vars, seg_vars, ingest_vars>>

NextLookalike == Construct \/ GetLlmContext \/ InvokeModelLookalike \/ ProcessResponse

\* query_rag on responses that carry marker lookalikes.
SpecLookalike == Init /\ [][NextLookalike]_vars

\* What a response with a marker inside brackets is concatenated from:
\* [Source n], a bare numeric marker, a bare numeric marker inside the brackets
\* of another one, a character and a space.
NestedPieces ==
  {SourceMarker(n) : n \in 1..(MaxK + 1)}
    \cup {<<"[", "1", "]">>, <<"[", "[", "1", "]", "1", "]">>, <<"x">>, <<" ">>}

RECURSIVE NestedTexts(_)
NestedTexts(n) ==
  IF n = 0 THEN {<<>>}
  ELSE LET S == NestedTexts(n - 1) IN S \cup {s \o p : s \in S, p \in NestedPieces}

NestedResponses == NestedTexts(MaxPieces)

\* response_text = model.invoke(prompt): a text with nested brackets.
InvokeModelNested ==
  /\ pc = "prompted"
  /\ \E t \in NestedResponses : response_text' = t
  /\ pc' = "responded"
  /\ UNCHANGED <<search_results, k_chunks, all_citations, lookup, context_text,
                 processed_response>>
  /\ UNCHANGED processed_again
  /\ UNCHANGED <<nav_vars, seg_vars, ingest_vars>>

\* citation_manager.process_response(processed_response.renumbered_response_text):
\* the same CitationManager is given the text it returned.
ProcessAgain ==
  /\ pc = "done"
  /\ processed_again' =
       process_response(lookup, k_chunks, processed_response.renumbered_response_text)
  /\ pc' = "redone"
  /\ UNCHANGED <<search_results, k_chunks, all_citations, lookup, context_text,
                 response_text, processed_response>>
  /\ UNCHANGED <<nav_vars, seg_vars, ingest_vars>>

NextAgain ==
  Construct \/ GetLlmContext \/ InvokeModelNested \/ ProcessResponse \/ ProcessAgain

\* query_rag, and process_response called once more on its own result.
SpecAgain == Init /\ [][NextAgain]_vars

\* ------------------------------------------------------------ navigation resolver
\* os.path.basename(p): what follows the last "/".
basename(p) ==
  LET parts == SplitOn(p, "/") IN parts[Len(parts)]

\* self.data_path = Path(data_path), data_path = "data".
data_path == <<"data">>

\* str(self.data_path / filename) for a filename without "/": an empty or "."
\* component adds nothing to the path.
FullPath(filename) ==
  IF filename \in {<<>>, <<".">>} THEN data_path ELSE data_path \o <<"/">> \o filename

\* Variant: an identity of fewer than four fields gets the record of the except
\* branch.
parse_chunk_id_strict(id) ==
  LET parts == SplitOn(id, ":")
  IN IF Len(parts) >= 4
     THEN [file_path |-> parts[1], filename |-> basename(parts[1]), page |-> parts[2],
           paragraph |-> parts[3], chunk |-> parts[4],
           full_path |-> FullPath(basename(parts[1]))]
     ELSE [file_path |-> <<"unknown">>, filename |-> <<"unknown">>, page |-> <<"1">>,
           paragraph |-> <<"1">>, chunk |-> <<"1">>, full_path |-> <<"unknown">>]

\* DocumentService.parse_chunk_id.  str.split never gives an empty list and no
\* step of the try block raises for a string, so the except branch is not taken.
parse_chunk_id(id) ==
  LET parts == SplitOn(id, ":")
  IN IF Len(parts) >= 4
     THEN [file_path |-> parts[1], filename |-> basename(parts[1]), page |-> parts[2],
           paragraph |-> parts[3], chunk |-> parts[4],
           full_path |-> FullPath(basename(parts[1]))]
     ELSE [file_path |-> parts[1], filename |-> basename(parts[1]),
           page |-> IF Len(parts) > 1 THEN parts[2] ELSE <<"1">>,
           paragraph |-> IF Len(parts) > 2 THEN parts[3] ELSE <<"1">>,
           chunk |-> IF Len(parts) > 3 THEN parts[4] ELSE <<"1">>,
           full_path |-> FullPath(basename(parts[1]))]

\* Path(full_path).exists(): the document root itself, or a file under it.
PathExists(full_path, dir, names) ==
  \/ full_path = data_path /\ dir
  \/ \E f \in names : full_path = data_path \o <<"/">> \o f

\* DocumentService.get_document_info, without the size and the navigation URLs.
get_document_info(id, dir, names) ==
  LET info == parse_chunk_id(id)
  IN [file_path |-> info.file_path, filename |-> info.filename, page |-> info.page,
      paragraph |-> info.paragraph, chunk |-> info.chunk, full_path |-> info.full_path,
      exists |-> PathExists(info.full_path, dir, names)]

\* Fields an identity string is written with.
FieldPool ==
  { <<>>, <<"3">>, <<"a", ".pdf">>, <<"data", "/">>, <<"data", "/", "a", ".pdf">> }

\* Identity strings of n fields.
RECURSIVE IdentitiesOf(_)
IdentitiesOf(n) ==
  IF n = 1 THEN FieldPool
  ELSE {s \o <<":">> \o f : s \in IdentitiesOf(n - 1), f \in FieldPool}

Identities == UNION {IdentitiesOf(n) : n \in 1..MaxFields}

\* Names a file under the document root can have.
FilePool == { <<"a", ".pdf">> }

\* A lookup of one identity: the registry has it as the id of a retrieved chunk,
\* the interface resolves it.
InitNav ==
  /\ nav_pc = "start"
  /\ chunk_id \in Identities
  /\ data_dir \in BOOLEAN
  /\ data_files \in SUBSET FilePool
  /\ data_files # {} => data_dir
  /\ location_info = None
  /\ document_info = None
  /\ nav_citation = None
  /\ EnhanceIdle
  /\ CitationIdle /\ SegIdle /\ IngestIdle

\* CitationManager._create_initial_citations on a chunk with this id.
BuildCitation ==
  /\ nav_pc = "start"
  /\ nav_citation' =
       Some(MakeCitation(1, [doc |-> [id |-> Some(chunk_id), page_content |-> <<"w">>],
                             score |-> None]))
  /\ nav_pc' = "cited"
  /\ UNCHANGED <<chunk_id, data_dir, data_files, location_info, document_info>>
  /\ UNCHANGED <<enh_pc, retrieved, citations_dict, enhanced_citations>>
  /\ UNCHANGED <<citation_vars, seg_vars, ingest_vars>>

\* document_service.parse_chunk_id(chunk_id)
ParseChunkId ==
  /\ nav_pc = "cited"
  /\ location_info' = Some(parse_chunk_id(chunk_id))
  /\ nav_pc' = "parsed"
  /\ UNCHANGED <<chunk_id, data_dir, data_files, document_info, nav_citation>>
  /\ UNCHANGED <<enh_pc, retrieved, citations_dict, enhanced_citations>>
  /\ UNCHANGED <<citation_vars, seg_vars, ingest_vars>>

\* document_service.get_document_info(chunk_id)
GetDocumentInfo ==
  /\ nav_pc = "parsed"
  /\ document_info' = Some(get_document_info(chunk_id, data_dir, data_files))
  /\ nav_pc' = "resolved"
  /\ UNCHANGED <<chunk_id, data_dir, data_files, location_info, nav_citation>>
  /\ UNCHANGED <<enh_pc, retrieved, citations_dict, enhanced_citations>>
  /\ UNCHANGED <<citation_vars, seg_vars, ingest_vars>>

NextNav == BuildCitation \/ ParseChunkId \/ GetDocumentInfo

SpecNav == InitNav /\ [][NextNav]_vars

\* ------------------------------------------------------------ segmenter
\* A paragraph, a sentence and a chunk are sequences of words written with one
\* space between them.  A word is its length in characters and its shape: "w" a
\* lowercase word, "W" a capitalized word, "w." and "W." the same ending in one of
\* . ! ?, "w," a lowercase word ending in a comma or semicolon, "H" a capitalized
\* paragraph starter (However, Furthermore, ...).
Cap(w) == w.shape \in {"W", "W.", "H"}

Term(w) == w.shape \in {"w.", "W."}

Comma(w) == w.shape = "w,"

EndsWordChar(w) == w.shape \in {"w", "W", "H"}

\* len(t)
RECURSIVE TextLen(_)
TextLen(t) ==
  IF t = <<>> THEN 0
  ELSE IF Len(t) = 1 THEN t[1].len ELSE t[1].len + 1 + TextLen(Tail(t))

\* chunk_size = 800
chunk_size == 800

\* len(text) > 400: a paragraph of one sentence is split further.
FallbackMinLen == 400

\* len(current + " " + part) <= 200: the size of a sub-sentence.
SubSentenceLen == 200

\* re.split at the spaces that follow the words whose index is in cuts.
RECURSIVE SplitAt(_, _)
SplitAt(t, cuts) ==
  IF cuts = {} THEN <<t>>
  ELSE LET i == CHOOSE c \in cuts : \A d \in cuts : c <= d
       IN <<SubSeq(t, 1, i)>> \o SplitAt(SubSeq(t, i + 1, Len(t)), {c - i : c \in cuts \ {i}})

\* r'(?<=[.!?])\s+(?=[A-Z])': the spaces between a terminator and a capital.
SentenceCuts(t) == {i \in 1..(Len(t) - 1) : Term(t[i]) /\ Cap(t[i + 1])}

\* r'[,;]\s+|(?<=\w)\s+(?=\w)': a comma or semicolon with the spaces after it,
\* or the spaces between two word characters (every word starts with one).
PartCuts(t) == {i \in 1..(Len(t) - 1) : Comma(t[i]) \/ EndsWordChar(t[i])}

\* The comma or semicolon that re.split matched is not part of a part.
DropCommas(t) ==
  [i \in 1..Len(t) |->
     IF i < Len(t) /\ Comma(t[i]) THEN [shape |-> "w", len |-> t[i].len - 1] ELSE t[i]]

\* The loop of split_into_sentences over parts from index i on.
RECURSIVE GroupParts(_, _, _)
GroupParts(parts, i, current) ==
  IF i > Len(parts) THEN (IF current # <<>> THEN <<current>> ELSE <<>>)
  ELSE IF TextLen(current) + 1 + TextLen(parts[i]) <= SubSentenceLen
       THEN GroupParts(parts, i + 1, current \o parts[i])
       ELSE (IF current # <<>> THEN <<current>> ELSE <<>>)
              \o GroupParts(parts, i + 1, parts[i])

\* [s.strip() for s in sentences if s.strip()]
NonEmpty(texts) == SelectSeq(texts, LAMBDA x : x # <<>>)

\* split_into_sentences(text)
split_into_sentences(text) ==
  LET sentences == SplitAt(text, SentenceCuts(text))
  IN IF Len(sentences) = 1 /\ TextLen(text) > FallbackMinLen
     THEN NonEmpty(GroupParts(SplitAt(DropCommas(text), PartCuts(text)), 1, <<>>))
     ELSE NonEmpty(sentences)

\* Document(page_content=..., metadata={**base_metadata, "paragraph_num": ...,
\* "chunk_in_paragraph": ...})
MakeChunk(text, base_metadata, para_idx, chunk_in_para) ==
  [page_content |-> text,
   metadata |-> [source |-> base_metadata.source, page |-> base_metadata.page,
                 paragraph_num |-> para_idx, chunk_in_paragraph |-> chunk_in_para]]

\* Variant: every sentence is a chunk of its own.
PackSentencesSingly(sentences, i, current_chunk, size) == sentences

\* Variant: the sentence is added before the length is tested.
RECURSIVE PackSentencesLate(_, _, _, _)
PackSentencesLate(sentences, i, current_chunk, size) ==
  IF i > Len(sentences) THEN (IF current_chunk # <<>> THEN <<current_chunk>> ELSE <<>>)
  ELSE IF TextLen(current_chunk) <= size
       THEN PackSentencesLate(sentences, i + 1, current_chunk \o sentences[i], size)
       ELSE <<current_chunk>> \o PackSentencesLate(sentences, i + 1, sentences[i], size)

\* The loop of split_paragraph_into_chunks over sentences from index i on: the
\* texts of the chunks, in order.
RECURSIVE PackSentences(_, _, _, _)
PackSentences(sentences, i, current_chunk, size) ==
  IF i > Len(sentences) THEN (IF current_chunk # <<>> THEN <<current_chunk>> ELSE <<>>)
  ELSE LET potential_chunk == current_chunk \o sentences[i]
       IN IF TextLen(potential_chunk) <= size
          THEN PackSentences(sentences, i + 1, potential_chunk, size)
          ELSE (IF current_chunk # <<>> THEN <<current_chunk>> ELSE <<>>)
                 \o PackSentences(sentences, i + 1, sentences[i], size)

\* Variant: the chunks of a paragraph are counted from 0.
split_paragraph_into_chunks_from_zero(para, size, base_metadata, para_idx) ==
  IF TextLen(para) <= size
  THEN <<MakeChunk(para, base_metadata, para_idx, 0)>>
  ELSE LET texts == PackSentences(split_into_sentences(para), 1, <<>>, size)
       IN [j \in 1..Len(texts) |-> MakeChunk(texts[j], base_metadata, para_idx, j - 1)]

\* split_paragraph_into_chunks(paragraph, chunk_size, base_metadata, para_idx)
split_paragraph_into_chunks(para, size, base_metadata, para_idx) ==
  IF TextLen(para) <= size
  THEN <<MakeChunk(para, base_metadata, para_idx, 1)>>
  ELSE LET texts == PackSentences(split_into_sentences(para), 1, <<>>, size)
       IN [j \in 1..Len(texts) |-> MakeChunk(texts[j], base_metadata, para_idx, j)]

\* Words a paragraph handed to the splitter is written with.
WordPool ==
  {[shape |-> sh, len |-> n] : sh \in {"w", "W", "w.", "W.", "w,"}, n \in {99, 395, 801}}

RECURSIVE WordTexts(_)
WordTexts(n) ==
  IF n = 0 THEN {<<>>}
  ELSE LET S == WordTexts(n - 1) IN S \cup {Append(t, w) : t \in S, w \in WordPool}

\* detect_paragraphs keeps no empty paragraph.
Paragraphs == WordTexts(MaxWords) \ {<<>>}

\* Metadata of the page document the paragraph is from.
PageMetadata == [source |-> <<"data", "/", "a", ".pdf">>, page |-> 0]

\* One paragraph of a page is about to be split.
InitSegment ==
  /\ seg_pc = "detected"
  /\ paragraph \in Paragraphs
  /\ para_chunks = <<>>
  /\ page_text = <<>>
  /\ detected = <<>>
  /\ CitationIdle /\ NavIdle /\ IngestIdle

\* para_chunks = split_paragraph_into_chunks(paragraph, chunk_size, doc.metadata, para_idx)
SplitParagraph ==
  /\ seg_pc = "detected"
  /\ para_chunks' = split_paragraph_into_chunks(paragraph, chunk_size, PageMetadata, 1)
  /\ seg_pc' = "split"
  /\ UNCHANGED <<paragraph, page_text, detected>>
  /\ UNCHANGED <<citation_vars, nav_vars, ingest_vars>>

NextSegment == SplitParagraph

SpecSegment == InitSegment /\ [][NextSegment]_vars

\* ------------------------------------------------------------ paragraph detection
\* The text of a page is words with one separator between two of them: a space,
\* a newline, or a blank line (shape "\n\n").
IsSep(x) == x.shape \in {" ", "\n", "\n\n"}

\* len(para) > 20: shorter paragraphs are not kept.
MinParagraphLen == 20

\* r'[A-Z][A-Z\s]+ [A-Z]' under re.IGNORECASE, tried at the word of index j:
\* words of letters only, whitespace between them, a space before the last one.
RECURSIVE AllCapsRun(_, _)
AllCapsRun(t, j) ==
  /\ j + 2 <= Len(t)
  /\ EndsWordChar(t[j])
  /\ \/ t[j + 1].shape = " "
     \/ t[j + 1].shape = "\n" /\ AllCapsRun(t, j + 2)

\* r'[A-Z][a-z]+(?:\s+[A-Z][a-z]+)*\s+[A-Z]' tried at the word of index j.
CapitalizedRun(t, j) ==
  /\ j + 2 <= Len(t)
  /\ t[j].shape \in {"W", "H"}
  /\ t[j + 1].shape \in {" ", "\n"}
  /\ Cap(t[j + 2])

\* Patterns 2 and 3: the newline of index i follows a sentence ending and is
\* followed by a paragraph starter, by words of letters, or by capitalized words.
\* (No word of a page is a number, "Imagine" or "Event": the other patterns match
\* nothing.)
NewlineBreak(t, i) ==
  /\ 1 < i /\ i < Len(t)
  /\ t[i].shape = "\n"
  /\ Term(t[i - 1])
  /\ \/ t[i + 1].shape = "H"
     \/ AllCapsRun(t, i + 1)
     \/ CapitalizedRun(t, i + 1)

\* text.strip()
RECURSIVE StripSeps(_)
StripSeps(t) ==
  IF t # <<>> /\ IsSep(t[1]) THEN StripSeps(Tail(t))
  ELSE IF t # <<>> /\ IsSep(t[Len(t)]) THEN StripSeps(SubSeq(t, 1, Len(t) - 1))
       ELSE t

\* The words of a piece of text: newlines become spaces, whitespace is normalized.
WordsOf(t) == SelectSeq(t, LAMBDA x : ~IsSep(x))

\* text.split(marker) from the token of index i on, current being the piece read
\* so far.
RECURSIVE SplitParagraphs(_, _, _)
SplitParagraphs(t, i, current) ==
  IF i > Len(t) THEN <<current>>
  ELSE IF t[i].shape = "\n\n" \/ NewlineBreak(t, i)
       THEN <<current>> \o SplitParagraphs(t, i + 1, <<>>)
       ELSE SplitParagraphs(t, i + 1, Append(current, t[i]))

\* The pieces between the paragraph markers, each cleaned up: newlines replaced
\* with spaces, whitespace normalized, stripped.
CleanedParagraphs(text) ==
  LET pieces == SplitParagraphs(StripSeps(text), 1, <<>>)
  IN [i \in 1..Len(pieces) |-> WordsOf(pieces[i])]

\* detect_paragraphs(text)
detect_paragraphs(text) ==
  SelectSeq(CleanedParagraphs(text),
            LAMBDA para : para # <<>> /\ TextLen(para) > MinParagraphLen)

\* Words of pages with paragraphs around MinParagraphLen characters.
DetectWords ==
  {[shape |-> "w", len |-> n] : n \in {19, 20, 21}}
    \cup {[shape |-> "W.", len |-> 9], [shape |-> "w", len |-> 10]}

\* Page texts of at most n words, a space or a blank line between two words.
RECURSIVE PageTexts(_)
PageTexts(n) ==
  IF n = 1 THEN {<<w>> : w \in DetectWords}
  ELSE LET S == PageTexts(n - 1)
       IN S \cup {t \o <<[shape |-> sep, len |-> IF sep = " " THEN 1 ELSE 2], w>> :
                    t \in S, sep \in {" ", "\n\n"}, w \in DetectWords}

\* The text of one loaded page is about to be split into paragraphs.
InitDetect ==
  /\ seg_pc = "loaded"
  /\ page_text \in PageTexts(MaxWords)
  /\ detected = <<>>
  /\ paragraph = <<>>
  /\ para_chunks = <<>>
  /\ CitationIdle /\ NavIdle /\ IngestIdle

\* paragraphs = detect_paragraphs(doc.page_content)
DetectParagraphs ==
  /\ seg_pc = "loaded"
  /\ detected' = detect_paragraphs(page_text)
  /\ seg_pc' = "paragraphs"
  /\ UNCHANGED <<paragraph, para_chunks, page_text>>
  /\ UNCHANGED <<citation_vars, nav_vars, ingest_vars>>

NextDetect == DetectParagraphs

\* The paragraph detection of one page.
SpecDetect == InitDetect /\ [][NextDetect]_vars

\* ------------------------------------------------------------ ingestion
\* Variant: every paragraph of a page is given the number 1.
RECURSIVE ParagraphChunksUnnumbered(_, _, _)
ParagraphChunksUnnumbered(paragraphs, para_idx, metadata) ==
  IF para_idx > Len(paragraphs) THEN <<>>
  ELSE split_paragraph_into_chunks(paragraphs[para_idx], chunk_size, metadata, 1)
         \o ParagraphChunksUnnumbered(paragraphs, para_idx + 1, metadata)

\* The chunks of the paragraphs of one page document, from paragraph para_idx on.
RECURSIVE ParagraphChunks(_, _, _)
ParagraphChunks(paragraphs, para_idx, metadata) ==
  IF para_idx > Len(paragraphs) THEN <<>>
  ELSE split_paragraph_into_chunks(paragraphs[para_idx], chunk_size, metadata, para_idx)
         \o ParagraphChunks(paragraphs, para_idx + 1, metadata)

\* Variant: the page documents are taken last to first.
RECURSIVE split_documents_reversed(_)
split_documents_reversed(docs) ==
  IF docs = <<>> THEN <<>>
  ELSE split_documents_reversed(Tail(docs))
         \o ParagraphChunks(detect_paragraphs(docs[1].page_content), 1, docs[1].metadata)

\* split_documents(documents)
RECURSIVE split_documents(_)
split_documents(docs) ==
  IF docs = <<>> THEN <<>>
  ELSE ParagraphChunks(detect_paragraphs(docs[1].page_content), 1, docs[1].metadata)
         \o split_documents(Tail(docs))

\* Variant: the page is left out of the paragraph id.
ParaIdWithoutPage(metadata) ==
  metadata.source \o <<":">> \o NatToDigits(metadata.paragraph_num)

\* f"{source}:{page_number}:{paragraph_num}"; page_number = page + 1, the loader's
\* page being an int.
ParaId(metadata) ==
  metadata.source \o <<":">> \o NatToDigits(metadata.page + 1) \o <<":">>
    \o NatToDigits(metadata.paragraph_num)

\* The loop of calculate_chunk_ids from the chunk of index i on.
RECURSIVE ChunkIdsFrom(_, _, _, _)
ChunkIdsFrom(chunks, i, last_para_id, current_chunk_index) ==
  IF i > Len(chunks) THEN <<>>
  ELSE LET m == chunks[i].metadata
           current_para_id == ParaId(m)
           index == IF Some(current_para_id) = last_para_id
                    THEN current_chunk_index + 1 ELSE 1
       IN <<[page_content |-> chunks[i].page_content,
             metadata |-> [source |-> m.source, page |-> m.page + 1,
                           paragraph_num |-> m.paragraph_num,
                           chunk_in_paragraph |-> m.chunk_in_paragraph,
                           id |-> current_para_id \o <<":">> \o NatToDigits(index),
                           paragraph_id |-> current_para_id]]>>
            \o ChunkIdsFrom(chunks, i + 1, Some(current_para_id), index)

\* calculate_chunk_ids(chunks)
calculate_chunk_ids(chunks) == ChunkIdsFrom(chunks, 1, None, 0)

\* Variant: no chunk is skipped.
NewChunksUnfiltered(chunks, existing) == chunks

\* add_to_chroma: the chunks whose id is not in existing_ids.
NewChunks(chunks, existing) ==
  SelectSeq(chunks, LAMBDA chunk : chunk.metadata.id \notin existing)

\* Variant: the collection is written anew with the chunks handed in.
add_documents_anew(store, chunks) ==
  LET ids == {chunks[i].metadata.id : i \in 1..Len(chunks)}
  IN [id \in ids |->
        chunks[CHOOSE i \in 1..Len(chunks) : chunks[i].metadata.id = id].page_content]

\* db.add_documents(new_chunks, ids=new_chunk_ids): the collection maps each id
\* handed in to the text handed in with it, the last one if an id comes twice.
add_documents(store, chunks) ==
  LET ids == {chunks[i].metadata.id : i \in 1..Len(chunks)}
      last(id) == CHOOSE i \in 1..Len(chunks) :
                    /\ chunks[i].metadata.id = id
                    /\ \A j \in 1..Len(chunks) : chunks[j].metadata.id = id => j <= i
  IN [id \in DOMAIN store \cup ids |->
        IF id \in ids THEN chunks[last(id)].page_content ELSE store[id]]

\* How often each id has been handed to db.add_documents, after one more call.
CountInserted(counts, chunks) ==
  LET ids == {chunks[i].metadata.id : i \in 1..Len(chunks)}
      times(id) == Cardinality({i \in 1..Len(chunks) : chunks[i].metadata.id = id})
  IN [id \in DOMAIN counts \cup ids |->
        (IF id \in DOMAIN counts THEN counts[id] ELSE 0) + (IF id \in ids THEN times(id) ELSE 0)]

\* Paths of the PDF files DATA_PATH can hold, in the order the loader reads them.
\* A file name may contain a colon.
Sources == << <<"data", "/", "a", ".pdf">>, <<"data", "/", "a", ":", "b", ".pdf">> >>

\* Pages of a document: a long paragraph of three sentences and a short one; the
\* same page edited; a page whose second paragraph starts after a newline.
PageLong ==
  << [shape |-> "W", len |-> 395], [shape |-> " ", len |-> 1],
     [shape |-> "w.", len |-> 395], [shape |-> " ", len |-> 1],
     [shape |-> "W.", len |-> 99], [shape |-> "\n\n", len |-> 2],
     [shape |-> "W", len |-> 30], [shape |-> " ", len |-> 1],
     [shape |-> "w.", len |-> 12] >>

PageEdited ==
  << [shape |-> "W", len |-> 395], [shape |-> " ", len |-> 1],
     [shape |-> "w.", len |-> 395], [shape |-> " ", len |-> 1],
     [shape |-> "W.", len |-> 98], [shape |-> "\n\n", len |-> 2],
     [shape |-> "W", len |-> 31], [shape |-> " ", len |-> 1],
     [shape |-> "w.", len |-> 12] >>

PageStarter ==
  << [shape |-> "W.", len |-> 40], [shape |-> "\n", len |-> 1],
     [shape |-> "H", len |-> 7], [shape |-> " ", len |-> 1],
     [shape |-> "w.", len |-> 30], [shape |-> "\n\n", len |-> 2],
     [shape |-> "w", len |-> 15] >>

\* What a file can hold; <<>> is no file of that name.
DocVersions == { <<PageLong>>, <<PageEdited>>, <<PageLong, PageStarter>> }

\* The page documents PyPDF gives for one file: page numbers from 0.
LoadFile(source, pages) ==
  [i \in 1..Len(pages) |->
     [page_content |-> pages[i], metadata |-> [source |-> source, page |-> i - 1]]]

\* load_documents(): PyPDFDirectoryLoader(DATA_PATH).load()
RECURSIVE LoadFilesFrom(_, _)
LoadFilesFrom(fs, i) ==
  IF i > Len(Sources) THEN <<>>
  ELSE LoadFile(Sources[i], fs[i]) \o LoadFilesFrom(fs, i + 1)

load_documents(fs) == LoadFilesFrom(fs, 1)

\* The processes that ingest: the file watcher's handler and the upload endpoint.
Ingestors == {"watcher", "upload"}

\* The empty collection, and the count of insertions into it.
EmptyStore == [id \in {} |-> <<>>]

NothingInserted == [id \in {} |-> 0]

\* An empty collection, any documents under DATA_PATH, the processes procs idle.
IngestStart(procs) ==
  /\ ingest_pc = [p \in procs |-> "idle"]
  /\ files \in [1..Len(Sources) -> DocVersions \cup {<<>>}]
  /\ db = EmptyStore
  /\ inserted = NothingInserted
  /\ documents = [p \in procs |-> <<>>]
  /\ chunks_with_ids = [p \in procs |-> <<>>]
  /\ existing_ids = [p \in procs |-> {}]
  /\ new_chunks = [p \in procs |-> <<>>]
  /\ prev_documents = None
  /\ passes = 0
  /\ changes = 0
  /\ CitationIdle /\ NavIdle /\ SegIdle

\* One process ingests, pass after pass.
InitIngest == IngestStart({"upload"})

\* The watcher and the upload endpoint ingest into the same collection.
InitConcurrent == IngestStart(Ingestors)

\* A file under DATA_PATH is saved, replaced or removed.
ChangeDocuments ==
  /\ changes < MaxChanges
  /\ \E i \in 1..Len(Sources), v \in DocVersions \cup {<<>>} :
       /\ v # files[i]
       /\ files' = [files EXCEPT ![i] = v]
  /\ changes' = changes + 1
  /\ UNCHANGED <<ingest_pc, db, inserted, documents, chunks_with_ids, existing_ids,
                 new_chunks, prev_documents, passes>>
  /\ UNCHANGED <<citation_vars, nav_vars, seg_vars>>

\* documents = load_documents(); chunks = split_documents(documents);
\* add_to_chroma(chunks) up to chunks_with_ids = calculate_chunk_ids(chunks)
LoadAndSplit(p) ==
  /\ ingest_pc[p] = "idle"
  /\ passes < MaxPasses
  /\ documents' = [documents EXCEPT ![p] = load_documents(files)]
  /\ chunks_with_ids' =
       [chunks_with_ids EXCEPT ![p] = calculate_chunk_ids(split_documents(documents'[p]))]
  /\ ingest_pc' = [ingest_pc EXCEPT ![p] = "loaded"]
  /\ passes' = passes + 1
  /\ UNCHANGED <<files, db, inserted, existing_ids, new_chunks, prev_documents, changes>>
  /\ UNCHANGED <<citation_vars, nav_vars, seg_vars>>

\* existing_ids = set(db.get(include=[])["ids"])
ReadExisting(p) ==
  /\ ingest_pc[p] = "loaded"
  /\ existing_ids' = [existing_ids EXCEPT ![p] = DOMAIN db]
  /\ ingest_pc' = [ingest_pc EXCEPT ![p] = "read"]
  /\ UNCHANGED <<files, db, inserted, documents, chunks_with_ids, new_chunks,
                 prev_documents, passes, changes>>
  /\ UNCHANGED <<citation_vars, nav_vars, seg_vars>>

\* The loop that collects new_chunks.
FilterNew(p) ==
  /\ ingest_pc[p] = "read"
  /\ new_chunks' = [new_chunks EXCEPT ![p] = NewChunks(chunks_with_ids[p], existing_ids[p])]
  /\ ingest_pc' = [ingest_pc EXCEPT ![p] = "filtered"]
  /\ UNCHANGED <<files, db, inserted, documents, chunks_with_ids, existing_ids,
                 prev_documents, passes, changes>>
  /\ UNCHANGED <<citation_vars, nav_vars, seg_vars>>

\* if len(new_chunks): db.add_documents(new_chunks, ids=new_chunk_ids); db.persist()
AddNew(p) ==
  /\ ingest_pc[p] = "filtered"
  /\ IF new_chunks[p] # <<>>
     THEN /\ db' = add_documents(db, new_chunks[p])
          /\ inserted' = CountInserted(inserted, new_chunks[p])
     ELSE UNCHANGED <<db, inserted>>
  /\ prev_documents' = Some(documents[p])
  /\ ingest_pc' = [ingest_pc EXCEPT ![p] = "idle"]
  /\ UNCHANGED <<files, documents, chunks_with_ids, existing_ids, new_chunks, passes,
                 changes>>
  /\ UNCHANGED <<citation_vars, nav_vars, seg_vars>>

NextIngest ==
  \/ ChangeDocuments
  \/ \E p \in DOMAIN ingest_pc : LoadAndSplit(p)
  \/ \E p \in DOMAIN ingest_pc : ReadExisting(p)
  \/ \E p \in DOMAIN ingest_pc : FilterNew(p)
  \/ \E p \in DOMAIN ingest_pc : AddNew(p)

\* Ingestion passes one after the other.
SpecIngest == InitIngest /\ [][NextIngest]_vars

\* Ingestion passes of two processes, interleaved.
SpecConcurrent == InitConcurrent /\ [][NextIngest]_vars

\* Chunks a caller of add_to_chroma can hand in: of the first or the second
\* paragraph of a page, in two wordings.
ChunkPool ==
  {MakeChunk(<<[shape |-> "W.", len |-> n]>>, PageMetadata, para_idx, 1) :
     n \in {30, 31}, para_idx \in {1, 2}}

\* The chunk lists of at most n chunks.
RECURSIVE ChunkLists(_)
ChunkLists(n) ==
  IF n = 0 THEN {<<>>}
  ELSE LET S == ChunkLists(n - 1) IN S \cup {Append(l, c) : l \in S, c \in ChunkPool}

\* add_to_chroma(chunks) has been called with a chunk list; the collection is
\* empty.
InitBatch ==
  /\ ingest_pc = [p \in {"upload"} |-> "called"]
  /\ files = [i \in 1..Len(Sources) |-> <<>>]
  /\ db = EmptyStore
  /\ inserted = NothingInserted
  /\ documents = [p \in {"upload"} |-> <<>>]
  /\ chunks_with_ids \in [{"upload"} -> ChunkLists(MaxChunks)]
  /\ existing_ids = [p \in {"upload"} |-> {}]
  /\ new_chunks = [p \in {"upload"} |-> <<>>]
  /\ prev_documents = None
  /\ passes = 1
  /\ changes = 0
  /\ CitationIdle /\ NavIdle /\ SegIdle

\* chunks_with_ids = calculate_chunk_ids(chunks): the ids are written into the
\* chunks handed in.
AssignIds(p) ==
  /\ ingest_pc[p] = "called"
  /\ chunks_with_ids' = [chunks_with_ids EXCEPT ![p] = calculate_chunk_ids(chunks_with_ids[p])]
  /\ ingest_pc' = [ingest_pc EXCEPT ![p] = "loaded"]
  /\ UNCHANGED <<files, db, inserted, documents, existing_ids, new_chunks, prev_documents,
                 passes, changes>>
  /\ UNCHANGED <<citation_vars, nav_vars, seg_vars>>

NextBatch ==
  \/ \E p \in DOMAIN ingest_pc : AssignIds(p)
  \/ \E p \in DOMAIN ingest_pc : ReadExisting(p)
  \/ \E p \in DOMAIN ingest_pc : FilterNew(p)
  \/ \E p \in DOMAIN ingest_pc : AddNew(p)

\* One call of add_to_chroma on a chunk list of any make.
SpecBatch == InitBatch /\ [][NextBatch]_vars

\* ------------------------------------------------------------ citation navigation
\* CitationNavigation._extract_page_number: int of the first digit run of
\* str(page_str), 1 when it has none.
extract_page_number(page_str) ==
  IF \E i \in 1..Len(page_str) : IsDigit(page_str[i])
  THEN LET i == CHOOSE j \in 1..Len(page_str) :
                  IsDigit(page_str[j]) /\ \A h \in 1..(j - 1) : ~IsDigit(page_str[h])
       IN DigitsToNat(SubSeq(page_str, i, DigitRunEnd(page_str, i)))
  ELSE 1

\* hasattr(citation, name) for a dict: its keys are not attributes.
HasAttr(citation, name) == FALSE

\* CitationNavigation._extract_chunk_id_from_citation
extract_chunk_id_from_citation(citation) ==
  IF HasAttr(citation, "source_id") THEN <<>>
  ELSE LET page == extract_page_number(citation.page)
       IN IF citation.filename # <<>>
          THEN <<"data", "/">> \o citation.filename \o <<":">> \o NatToDigits(page)
                 \o <<":", "1", ":", "1">>
          ELSE <<>>

\* One pass of the loop of enhance_citations_with_navigation: the citation with
\* its "document_info" (the navigation URLs are left out).
EnhanceCitation(citation, dir, names) ==
  LET id == extract_chunk_id_from_citation(citation)
      doc_info == get_document_info(id, dir, names)
      page == extract_page_number(citation.page)
  IN [source_num |-> citation.source_num,
      original_source_num |-> citation.original_source_num,
      filename |-> citation.filename,
      page |-> citation.page,
      document_info |->
        IF id # <<>>
        THEN [filename |-> doc_info.filename, page |-> doc_info.page,
              paragraph |-> doc_info.paragraph, chunk |-> doc_info.chunk,
              exists |-> doc_info.exists]
        ELSE [filename |-> citation.filename, page |-> NatToDigits(page),
              paragraph |-> <<"1">>, chunk |-> <<"1">>,
              exists |-> PathExists(FullPath(citation.filename), dir, names)]]

\* CitationNavigation.enhance_citations_with_navigation
enhance_citations_with_navigation(citations, dir, names) ==
  [i \in 1..Len(citations) |-> EnhanceCitation(citations[i], dir, names)]

\* query_rag, lines 383-393: the dictionaries made of the used citations.
CitationsDict(used_citations) ==
  [i \in 1..Len(used_citations) |->
     [source_num |-> used_citations[i].new_source_num,
      original_source_num |-> used_citations[i].original_source_num,
      filename |-> used_citations[i].filename,
      page |-> used_citations[i].page,
      tooltip_text |-> used_citations[i].content,
      relevance_score |-> used_citations[i].relevance_score]]

\* The chunks in the collection once two documents are ingested: one of two
\* pages, one of one page.
StoredChunks ==
  LET chunks == calculate_chunk_ids(split_documents(
                  load_documents(<< <<PageLong, PageStarter>>, <<PageLong>> >>)))
  IN {chunks[i] : i \in 1..Len(chunks)}

\* similarity_search_with_score: up to n distinct stored chunks, ranked.
RECURSIVE RetrievedLists(_)
RetrievedLists(n) ==
  IF n = 0 THEN {<<>>}
  ELSE LET S == RetrievedLists(n - 1)
       IN S \cup {Append(s, c) : s \in {q \in S : Len(q) = n - 1},
                                 c \in StoredChunks}

\* Responses of the model to a query: each cites retrieved chunks, or none.
CitingResponses ==
  { SourceMarker(1), SourceMarker(2) \o <<" ">> \o SourceMarker(1), <<"x">> }

\* The search results of a query: the retrieved chunks with their ids.  The text
\* of a chunk plays no part in its navigation record.
AsResults(chunks) ==
  [i \in 1..Len(chunks) |->
     [doc |-> [id |-> Some(chunks[i].metadata.id), page_content |-> <<"w">>],
      score |-> None]]

\* A query has retrieved chunks of the collection; the document root may hold
\* the files or not.
InitEnhance ==
  /\ enh_pc = "searched"
  /\ retrieved \in {r \in RetrievedLists(MaxK) :
                      r # <<>> /\ \A i, j \in 1..Len(r) : i # j => r[i] # r[j]}
  /\ data_dir \in BOOLEAN
  /\ data_files \in SUBSET FilePool
  /\ data_files # {} => data_dir
  /\ citations_dict = <<>>
  /\ enhanced_citations = <<>>
  /\ nav_pc = "idle"
  /\ chunk_id = <<>>
  /\ location_info = None
  /\ document_info = None
  /\ nav_citation = None
  /\ CitationIdle /\ SegIdle /\ IngestIdle

\* query_rag from the CitationManager to the "citations" list it returns.
QueryRag ==
  /\ enh_pc = "searched"
  /\ \E t \in CitingResponses :
       LET registry == BuildLookup(create_initial_citations(AsResults(retrieved)))
           processed == process_response(registry, MaxK, t)
       IN /\ processed.outcome = "returned"
          /\ citations_dict' = CitationsDict(processed.used_citations)
  /\ enh_pc' = "answered"
  /\ UNCHANGED <<nav_pc, chunk_id, data_dir, data_files, location_info, document_info,
                 nav_citation, retrieved, enhanced_citations>>
  /\ UNCHANGED <<citation_vars, seg_vars, ingest_vars>>

\* enhanced = citation_navigation.enhance_citations_with_navigation(citations)
EnhanceCitations ==
  /\ enh_pc = "answered"
  /\ enhanced_citations' =
       enhance_citations_with_navigation(citations_dict, data_dir, data_files)
  /\ enh_pc' = "enhanced"
  /\ UNCHANGED <<nav_pc, chunk_id, data_dir, data_files, location_info, document_info,
                 nav_citation, retrieved, citations_dict>>
  /\ UNCHANGED <<citation_vars, seg_vars, ingest_vars>>

NextEnhance == QueryRag \/ EnhanceCitations

\* A query whose citations are given navigation records.
SpecEnhance == InitEnhance /\ [][NextEnhance]_vars

\* ------------------------------------------------------------ properties
\* process_response returned (it did not raise).
Returned == pc = "done"

UsedCitations == processed_response.used_citations

\* The [Source n] markers of the response and of the returned text.
InMarkers == FindAllSource(response_text)

OutMarkers == FindAllSource(processed_response.renumbered_response_text)

InNums == {InMarkers[i].num : i \in 1..Len(InMarkers)}

OutNums == {OutMarkers[i].num : i \in 1..Len(OutMarkers)}

\* The distinct numbers in 1..k_chunks the response cites.
ValidCited == {n \in InNums : 1 <= n /\ n <= k_chunks}

\* Position of the first [Source n] marker of the response.
FirstPos(n) ==
  LET i == CHOOSE j \in 1..Len(InMarkers) :
             InMarkers[j].num = n /\ \A h \in 1..(j - 1) : InMarkers[h].num # n
  IN InMarkers[i].pos

\* C1: the new_source_num values of the returned citations are exactly 1..m, m the
\* number of distinct valid numbers cited, with no duplicate and no gap, and two
\* different original numbers never share a new number.
C1_RenumberingBijection ==
  Returned =>
    /\ Len(UsedCitations) = Cardinality(ValidCited)
    /\ {UsedCitations[i].new_source_num : i \in 1..Len(UsedCitations)}
         = 1..Cardinality(ValidCited)
    /\ \A i, j \in 1..Len(UsedCitations) :
         i # j =>
           /\ UsedCitations[i].new_source_num # UsedCitations[j].new_source_num
           /\ UsedCitations[i].original_source_num # UsedCitations[j].original_source_num

\* A response citing both sources several times, the second-ranked one first.
C1_Witness ==
  /\ Returned
  /\ Len(InMarkers) = 3
  /\ Cardinality(ValidCited) = 2
  /\ Len(UsedCitations) = 2
  /\ UsedCitations[1].original_source_num = 2

\* C2: when the first [Source A] marker is left of the first [Source B] marker and
\* both numbers are valid, the new number of A is smaller than the new number of B.
C2_FirstAppearanceOrder ==
  Returned =>
    \A a, b \in ValidCited :
      FirstPos(a) < FirstPos(b) =>
        \E i, j \in 1..Len(UsedCitations) :
          /\ UsedCitations[i].original_source_num = a
          /\ UsedCitations[j].original_source_num = b
          /\ UsedCitations[i].new_source_num < UsedCitations[j].new_source_num

\* Source 2 is cited before source 1, so the order of appearance reverses the ranks.
C2_Witness ==
  /\ Returned
  /\ {1, 2} \subseteq ValidCited
  /\ FirstPos(2) < FirstPos(1)
  /\ Len(UsedCitations) = 2

\* The new number the returned citations give an original number.
NewNumOf(n) ==
  LET i == CHOOSE j \in 1..Len(UsedCitations) : UsedCitations[j].original_source_num = n
  IN UsedCitations[i].new_source_num

\* The response's marker numbers with the out-of-range ones deleted and every
\* valid one replaced by its new number.
RECURSIVE ExpectedMarkers(_)
ExpectedMarkers(i) ==
  IF i > Len(InMarkers) THEN <<>>
  ELSE IF InMarkers[i].num \in ValidCited
       THEN <<NewNumOf(InMarkers[i].num)>> \o ExpectedMarkers(i + 1)
       ELSE ExpectedMarkers(i + 1)

\* C3: with at least one valid citation, the marker sequence of the returned text is
\* the response's marker sequence with out-of-range markers deleted and every
\* valid number replaced by its new number.
C3_MarkersRewrittenOnce ==
  (Returned /\ ValidCited # {}) =>
    [i \in 1..Len(OutMarkers) |-> OutMarkers[i].num] = ExpectedMarkers(1)

\* C4: a number outside 1..k_chunks cited in the response occurs in no [Source n]
\* marker of the returned text and in no returned citation.
C4_InvalidScrubbed ==
  Returned =>
    \A y \in InNums \ ValidCited :
      /\ y \notin OutNums
      /\ \A i \in 1..Len(UsedCitations) : UsedCitations[i].original_source_num # y

\* The number of bare numeric markers [N] of a text.
RECURSIVE BareMarkersFrom(_, _)
BareMarkersFrom(t, i) ==
  IF i > Len(t) THEN 0
  ELSE LET e == MatchBareAt(t, i)
       IN IF e > 0 THEN 1 + BareMarkersFrom(t, e + 1) ELSE BareMarkersFrom(t, i + 1)

\* C5: a response's bare numeric markers are absent from the returned text.
C5_BareNumericStripped ==
  (Returned /\ BareMarkersFrom(response_text, 1) > 0) =>
    BareMarkersFrom(processed_response.renumbered_response_text, 1) = 0

\* C6: a response that cites no number in 1..k_chunks comes back character for
\* character with an empty citation list, and process_response does not raise.
C6_NoValidCitationUnchanged ==
  (pc \in {"done", "raised"} /\ ValidCited = {}) =>
    /\ pc = "done"
    /\ processed_response.renumbered_response_text = response_text
    /\ UsedCitations = <<>>

\* The response cites out-of-range numbers only, next to other text.
C6_Witness ==
  /\ Returned
  /\ ValidCited = {}
  /\ Len(InMarkers) >= 1
  /\ Len(response_text) > 4
  /\ processed_response.renumbered_response_text = response_text

\* C7: process_response never raises when the registry was built with bound k from
\* n <= k results.
C7_NeverRaises == Len(search_results) <= k_chunks => pc # "raised"

\* C8: one RenumberedCitation per distinct valid number, in first-appearance order,
\* each carrying the display fields of the registry citation it derives from.
C8_CitationsCopied ==
  Returned =>
    /\ {UsedCitations[i].original_source_num : i \in 1..Len(UsedCitations)} = ValidCited
    /\ Len(UsedCitations) = Cardinality(ValidCited)
    /\ \A i, j \in 1..Len(UsedCitations) :
         i < j => FirstPos(UsedCitations[i].original_source_num)
                    < FirstPos(UsedCitations[j].original_source_num)
    /\ \A i \in 1..Len(UsedCitations) :
         \E n \in 1..Len(all_citations) :
           /\ all_citations[n].source_num = UsedCitations[i].original_source_num
           /\ lookup[UsedCitations[i].original_source_num] = all_citations[n]
           /\ UsedCitations[i].filename = all_citations[n].filename
           /\ UsedCitations[i].page = all_citations[n].page
           /\ UsedCitations[i].relevance_score = all_citations[n].relevance_score
           /\ UsedCitations[i].content = all_citations[n].content

\* Two citations with different display fields come back, the second-ranked first.
C8_Witness ==
  /\ Returned
  /\ Len(UsedCitations) = 2
  /\ UsedCitations[1].original_source_num = 2
  /\ UsedCitations[1].content # UsedCitations[2].content
  /\ UsedCitations[1].filename # UsedCitations[2].filename

\* C9: the context is one "[Source n] content" block per registry citation, in rank
\* order n = 1, 2, ..., joined by the delimiter; block i carries the content of the
\* i-th retrieved result.
C9_ContextRankOrder ==
  pc \in {"prompted", "responded", "done", "raised"} =>
    IF search_results = <<>> THEN context_text = <<>>
    ELSE LET blocks == SplitOn(context_text, ContextDelimiter)
         IN /\ Len(blocks) = Len(search_results)
            /\ \A i \in 1..Len(blocks) :
                 /\ all_citations[i].source_id
                      = (IF search_results[i].doc.id = None THEN <<"Unknown">>
                         ELSE TheValue(search_results[i].doc.id))
                 /\ blocks[i] = <<"[", "Source ">> \o NatToDigits(i) \o <<"]", " ">>
                                  \o all_citations[i].content

\* A context of two blocks with different contents.
C9_Witness ==
  /\ pc = "prompted"
  /\ Len(search_results) = 2
  /\ Len(SplitOn(context_text, ContextDelimiter)) = 2
  /\ all_citations[1].content # all_citations[2].content

\* C10: the registry built from n results numbers them 1..n in rank order, no two
\* citations share a number, and lookup[i] is the citation numbered i.
C10_RegistryNumbering ==
  pc # "searched" =>
    /\ Len(all_citations) = Len(search_results)
    /\ \A i \in 1..Len(all_citations) :
         /\ all_citations[i].source_num = i
         /\ all_citations[i].source_id
              = (IF search_results[i].doc.id = None THEN <<"Unknown">>
                 ELSE TheValue(search_results[i].doc.id))
    /\ \A i, j \in 1..Len(all_citations) :
         i # j => all_citations[i].source_num # all_citations[j].source_num
    /\ DOMAIN lookup = 1..Len(search_results)
    /\ \A i \in DOMAIN lookup : lookup[i] = all_citations[i]

\* A registry of two citations has just been constructed.
C10_Witness ==
  /\ pc = "constructed"
  /\ Len(all_citations) = 2
  /\ DOMAIN lookup = {1, 2}

\* ------------------------------------------------------------ identities
\* The chunk of index i of the pass of process p, and the chunks of a pass.
PassChunk(p, i) == chunks_with_ids[p][i]

PassChunks(p) == 1..Len(chunks_with_ids[p])

\* C11: splitting the identity calculate_chunk_ids gave a chunk on ":" gives back
\* four fields, the document, the page and the paragraph that were written into
\* it and the chunk index, for every document the ingestion loads.
C11_IdentityRoundTrip ==
  \A p \in DOMAIN ingest_pc : \A i \in PassChunks(p) :
    LET m == PassChunk(p, i).metadata
        r == parse_chunk_id(m.id)
    IN /\ Len(SplitOn(m.id, ":")) = 4
       /\ r.file_path = m.source
       /\ r.page = NatToDigits(m.page)
       /\ r.paragraph = NatToDigits(m.paragraph_num)
       /\ JoinWith(<<r.file_path, r.page, r.paragraph, r.chunk>>, <<":">>) = m.id

\* C12: no two chunks of one pass have the same identity.
C12_IdentitiesDistinct ==
  \A p \in DOMAIN ingest_pc : \A i, j \in PassChunks(p) :
    i # j => PassChunk(p, i).metadata.id # PassChunk(p, j).metadata.id

\* A pass over two files of two pages each, with a paragraph of two chunks.
C12_Witness ==
  \E p \in DOMAIN ingest_pc :
    /\ ingest_pc[p] = "loaded"
    /\ \E i, j \in PassChunks(p) :
         /\ i # j
         /\ PassChunk(p, i).metadata.paragraph_id = PassChunk(p, j).metadata.paragraph_id
    /\ \E i, j \in PassChunks(p) :
         /\ PassChunk(p, i).metadata.source = PassChunk(p, j).metadata.source
         /\ PassChunk(p, i).metadata.page # PassChunk(p, j).metadata.page
    /\ \E i, j \in PassChunks(p) :
         PassChunk(p, i).metadata.source # PassChunk(p, j).metadata.source

\* C13: a pass over the documents the pass before it loaded finds no new chunk:
\* every identity it generated is in the collection already, so it adds nothing.
C13_ReingestionAddsNothing ==
  \A p \in DOMAIN ingest_pc :
    ingest_pc[p] = "filtered" /\ prev_documents = Some(documents[p]) =>
      /\ new_chunks[p] = <<>>
      /\ \A i \in PassChunks(p) : PassChunk(p, i).metadata.id \in DOMAIN db

\* A second pass over unchanged documents that hold chunks.
C13_Witness ==
  \E p \in DOMAIN ingest_pc :
    /\ ingest_pc[p] = "filtered"
    /\ prev_documents = Some(documents[p])
    /\ Len(chunks_with_ids[p]) >= 3
    /\ new_chunks[p] = <<>>

\* C14: no identity is handed to db.add_documents more than once, whatever the
\* interleaving of two passes.
C14_NoDuplicateInsertion ==
  \A id \in DOMAIN inserted : inserted[id] <= 1

Plain(t) ==
  [i \in 1..Len(t) |-> IF Comma(t[i]) THEN [shape |-> "w", len |-> t[i].len - 1] ELSE t[i]]

\* The text part is a run of words of the text whole.
IsRunOf(part, whole) ==
  \E a \in 1..Len(whole) : \E b \in a..Len(whole) : SubSeq(Plain(whole), a, b) = Plain(part)

\* C17: the text of a chunk is a run of words of one detected paragraph of the
\* page it was loaded from, the paragraph number in its identity is the number
\* of that paragraph, and the chunks that share a (document, page, paragraph)
\* prefix are chunks of the same paragraph.
C17_ChunkWithinParagraph ==
  \A p \in DOMAIN ingest_pc : \A i \in PassChunks(p) :
    LET m == PassChunk(p, i).metadata
    IN /\ \E d \in 1..Len(documents[p]) :
            LET doc == documents[p][d]
                paragraphs == detect_paragraphs(doc.page_content)
            IN /\ doc.metadata.source = m.source
               /\ doc.metadata.page + 1 = m.page
               /\ m.paragraph_num \in 1..Len(paragraphs)
               /\ IsRunOf(PassChunk(p, i).page_content, paragraphs[m.paragraph_num])
       /\ m.paragraph_id
            = m.source \o <<":">> \o NatToDigits(m.page) \o <<":">> \o NatToDigits(m.paragraph_num)
       /\ SubSeq(m.id, 1, Len(m.paragraph_id) + 1) = m.paragraph_id \o <<":">>
       /\ \A j \in PassChunks(p) :
            PassChunk(p, j).metadata.paragraph_id = m.paragraph_id =>
              /\ PassChunk(p, j).metadata.source = m.source
              /\ PassChunk(p, j).metadata.page = m.page
              /\ PassChunk(p, j).metadata.paragraph_num = m.paragraph_num

\* A page of two paragraphs, the first of two chunks, has been split.
C17_Witness ==
  \E p \in DOMAIN ingest_pc :
    /\ ingest_pc[p] = "loaded"
    /\ \E i, j, k \in PassChunks(p) :
         /\ i < j /\ j < k
         /\ PassChunk(p, i).metadata.paragraph_id = PassChunk(p, j).metadata.paragraph_id
         /\ PassChunk(p, k).metadata.source = PassChunk(p, j).metadata.source
         /\ PassChunk(p, k).metadata.page = PassChunk(p, j).metadata.page
         /\ PassChunk(p, k).metadata.paragraph_num = 2
         /\ PassChunk(p, j).metadata.paragraph_num = 1

\* ------------------------------------------------------------ navigation lookups
\* The colon-delimited fields of the identity looked up.
NavFields == SplitOn(chunk_id, ":")

\* The record r has the fields of the identity, a missing trailing one being "1".
FieldsOrDefaults(r) ==
  /\ r.file_path = NavFields[1]
  /\ r.filename = basename(NavFields[1])
  /\ r.page = IF Len(NavFields) >= 2 THEN NavFields[2] ELSE <<"1">>
  /\ r.paragraph = IF Len(NavFields) >= 3 THEN NavFields[3] ELSE <<"1">>
  /\ r.chunk = <<"1">>

\* C18: for an identity of fewer than four colon-delimited fields every step of
\* the lookup gives a result; parse_chunk_id and get_document_info give the
\* fields present and "1" for each missing trailing field; the registry's
\* citation keeps the identity, its page is "N/A" when the identity has one
\* field only, the page field when it has two, the page and paragraph fields
\* when it has three.
C18_ShortIdentityDefaults ==
  Len(NavFields) < 4 =>
    /\ nav_pc \in {"cited", "parsed", "resolved"} => nav_citation # None
    /\ nav_pc \in {"parsed", "resolved"} => location_info # None
    /\ nav_pc = "resolved" => document_info # None
    /\ \A r \in location_info : FieldsOrDefaults(r)
    /\ \A r \in document_info : FieldsOrDefaults(r)
    /\ \A c \in nav_citation :
         /\ c.source_id = chunk_id
         /\ Len(NavFields) = 1 => c.page = <<"N/A">>
         /\ Len(NavFields) = 2 => c.page = NavFields[2] /\ c.filename = basename(NavFields[1])
         /\ Len(NavFields) = 3 =>
              /\ c.page = NavFields[2] \o <<" (para ">> \o NavFields[3] \o <<")">>
              /\ c.filename = basename(NavFields[1])

\* A two-field identity whose page is not the default has been resolved.
C18_Witness ==
  /\ nav_pc = "resolved"
  /\ Len(NavFields) = 2
  /\ NavFields[2] = <<"3">>
  /\ \E r \in document_info : r.page = <<"3">> /\ r.paragraph = <<"1">> /\ r.chunk = <<"1">>
  /\ \E c \in nav_citation : c.page = <<"3">>

\* C19: get_document_info reports exists only when a file named by the identity's
\* filename portion is under the document root, and reports exists = false for
\* an identity whose filename portion is empty.
C19_ExistsOnlyForPresentFile ==
  \A r \in document_info :
    /\ r.exists => r.filename \in data_files
    /\ r.filename = <<>> => ~r.exists

\* ------------------------------------------------------------ chunk sizes
\* C16: a chunk given by split_paragraph_into_chunks is at most chunk_size (800)
\* long, unless it is one sentence of split_into_sentences that is longer than
\* chunk_size by itself.
C16_ChunkSizeBound ==
  seg_pc = "split" =>
    \A j \in 1..Len(para_chunks) :
      LET text == para_chunks[j].page_content
          sentences == split_into_sentences(paragraph)
      IN \/ TextLen(text) <= chunk_size
         \/ \E i \in 1..Len(sentences) : sentences[i] = text

\* A paragraph longer than chunk_size was split into a chunk of several sentences
\* and an oversized chunk of one sentence.
C16_Witness ==
  /\ seg_pc = "split"
  /\ TextLen(paragraph) > chunk_size
  /\ \E j \in 1..Len(para_chunks) : TextLen(para_chunks[j].page_content) > chunk_size
  /\ \E j \in 1..Len(para_chunks) :
       /\ Len(para_chunks[j].page_content) > 1
       /\ \A i \in 1..Len(split_into_sentences(paragraph)) :
            split_into_sentences(paragraph)[i] # para_chunks[j].page_content

\* ------------------------------------------------------------ marker lookalikes
\* Number of places where pat occurs in t.
Occurrences(t, pat) ==
  Cardinality({i \in 1..Len(t) :
                 i + Len(pat) - 1 <= Len(t) /\ SubSeq(t, i, i + Len(pat) - 1) = pat})

\* C20: text that resembles a marker but does not match [Source <integer>] is in
\* the returned text exactly as it was in the response (as often, in the same
\* form), and the citations returned are those of the valid markers only.
C20_LookalikesUntouched ==
  Returned =>
    /\ \A l \in Lookalikes :
         Occurrences(processed_response.renumbered_response_text, l)
           = Occurrences(response_text, l)
    /\ Len(UsedCitations) = Cardinality(ValidCited)

\* ------------------------------------------------------------ navigation records
\* The chunk index an identity ends with, read off after its paragraph id.
IndexOf(chunk) ==
  SubSeq(chunk.metadata.id, Len(chunk.metadata.paragraph_id) + 2, Len(chunk.metadata.id))

\* C21: the navigation record of a citation that derives from the chunk of
\* identity file:p:q:c names that file and has page p, paragraph q and chunk c.
C21_NavigationRecordOfChunk ==
  \A i \in 1..Len(enhanced_citations) :
    LET chunk == retrieved[enhanced_citations[i].original_source_num]
        info == enhanced_citations[i].document_info
    IN /\ info.filename = basename(chunk.metadata.source)
       /\ info.page = NatToDigits(chunk.metadata.page)
       /\ info.paragraph = NatToDigits(chunk.metadata.paragraph_num)
       /\ info.chunk = IndexOf(chunk)

IdTriple(chunk) ==
  LET fields == SplitOn(chunk.metadata.id, ":")
      n == Len(fields)
  IN <<DigitsToNat(fields[n - 2]), DigitsToNat(fields[n - 1]), DigitsToNat(fields[n])>>

\* Lexicographic order of triples of integers.
TripleLess(a, b) ==
  \/ a[1] < b[1]
  \/ a[1] = b[1] /\ a[2] < b[2]
  \/ a[1] = b[1] /\ a[2] = b[2] /\ a[3] < b[3]

\* C23: of two chunks of one source document, the one generated first has the
\* smaller (page, paragraph, chunk) triple in its identity, the numbers compared
\* as integers lexicographically.
C23_IdentityOrderIsReadingOrder ==
  \A p \in DOMAIN ingest_pc : \A i, j \in PassChunks(p) :
    (i < j /\ PassChunk(p, i).metadata.source = PassChunk(p, j).metadata.source) =>
      TripleLess(IdTriple(PassChunk(p, i)), IdTriple(PassChunk(p, j)))

\* A pass over a document of two pages: two chunks of one paragraph, a second
\* paragraph of that page, and a chunk of the second page.
C23_Witness ==
  \E p \in DOMAIN ingest_pc :
    /\ ingest_pc[p] = "loaded"
    /\ \E i, j, k, l \in PassChunks(p) :
         /\ i < j /\ j < k /\ k < l
         /\ PassChunk(p, i).metadata.source = PassChunk(p, l).metadata.source
         /\ IdTriple(PassChunk(p, i)) = <<1, 1, 1>>
         /\ IdTriple(PassChunk(p, j)) = <<1, 1, 2>>
         /\ IdTriple(PassChunk(p, k)) = <<1, 2, 1>>
         /\ IdTriple(PassChunk(p, l))[1] = 2

\* The chunk before the chunk of index i is of the same source document.
FollowsInDocument(p, i) ==
  i > 1 /\ PassChunk(p, i - 1).metadata.source = PassChunk(p, i).metadata.source

\* C24: over the chunks of one source document in text order the paragraph
\* number starts at 1 and, from one paragraph to the next, goes up by one, also
\* from the last paragraph of a page to the first of the next page.
C24_ParagraphNumbersPerDocument ==
  \A p \in DOMAIN ingest_pc : \A i \in PassChunks(p) :
    LET m == PassChunk(p, i).metadata
    IN IF ~FollowsInDocument(p, i) THEN IdTriple(PassChunk(p, i))[2] = 1
       ELSE IF PassChunk(p, i - 1).metadata.paragraph_id = m.paragraph_id
            THEN IdTriple(PassChunk(p, i))[2] = IdTriple(PassChunk(p, i - 1))[2]
            ELSE IdTriple(PassChunk(p, i))[2] = IdTriple(PassChunk(p, i - 1))[2] + 1

\* The indices of the chunks of the pass of p that are of the paragraph of chunk i.
ChunksOfParagraph(p, i) ==
  {j \in PassChunks(p) :
     PassChunk(p, j).metadata.paragraph_id = PassChunk(p, i).metadata.paragraph_id}

\* C25: the chunk indices in the identities of the chunks of a paragraph are
\* 1, 2, ..., c in the order of the chunks, and each is the chunk_in_paragraph
\* the splitter gave the chunk.
C25_ChunkIndicesSequential ==
  \A p \in DOMAIN ingest_pc : \A i \in PassChunks(p) :
    LET index == IdTriple(PassChunk(p, i))[3]
        same == ChunksOfParagraph(p, i)
    IN /\ index = PassChunk(p, i).metadata.chunk_in_paragraph
       /\ index = Cardinality({j \in same : j <= i})
       /\ {IdTriple(PassChunk(p, j))[3] : j \in same} = 1..Cardinality(same)
       /\ \A j \in same : \A h \in PassChunks(p) : (j <= h /\ h <= i) => h \in same

\* A paragraph of two chunks is followed by a paragraph of one chunk.
C25_Witness ==
  \E p \in DOMAIN ingest_pc :
    /\ ingest_pc[p] = "loaded"
    /\ \E i \in PassChunks(p) :
         /\ Cardinality(ChunksOfParagraph(p, i)) = 2
         /\ IdTriple(PassChunk(p, i))[3] = 2
         /\ i + 1 \in PassChunks(p)
         /\ Cardinality(ChunksOfParagraph(p, i + 1)) = 1
         /\ IdTriple(PassChunk(p, i + 1))[3] = 1

\* ------------------------------------------------------------ chunk filling
\* The texts of the chunks of the paragraph split, and its sentences.
ChunkTexts == [j \in 1..Len(para_chunks) |-> para_chunks[j].page_content]

Sentences == split_into_sentences(paragraph)

\* The number of words before the text of index k of a sequence of texts.
RECURSIVE WordsBefore(_, _)
WordsBefore(texts, k) ==
  IF k <= 1 THEN 0 ELSE WordsBefore(texts, k - 1) + Len(texts[k - 1])

\* The index of the sentence the chunk of index j starts with (0: the chunk
\* does not start where a sentence starts).
FirstSentenceOf(j) ==
  IF \E k \in 1..Len(Sentences) : WordsBefore(Sentences, k) = WordsBefore(ChunkTexts, j)
  THEN CHOOSE k \in 1..Len(Sentences) : WordsBefore(Sentences, k) = WordsBefore(ChunkTexts, j)
  ELSE 0

\* C26: a paragraph of at most chunk_size characters is one chunk, whole; the
\* chunks of a longer paragraph are its sentences in order, each sentence whole
\* in one chunk, and a chunk is closed only when the next sentence does not
\* fit: for consecutive chunks, the length of the first plus one space plus the
\* length of the first sentence of the second is more than chunk_size.
C26_GreedyFilling ==
  /\ (seg_pc = "split" /\ TextLen(paragraph) <= chunk_size) => ChunkTexts = <<paragraph>>
  /\ (seg_pc = "split" /\ TextLen(paragraph) > chunk_size) =>
    /\ JoinWith(ChunkTexts, <<>>) = JoinWith(Sentences, <<>>)
    /\ \A j \in 1..Len(ChunkTexts) :
         /\ ChunkTexts[j] # <<>>
         /\ FirstSentenceOf(j) > 0
         /\ para_chunks[j].metadata.chunk_in_paragraph = j
    /\ \A j \in 1..(Len(ChunkTexts) - 1) :
         TextLen(ChunkTexts[j]) + 1 + TextLen(Sentences[FirstSentenceOf(j + 1)]) > chunk_size

\* A first chunk of two sentences was closed because the third did not fit.
C26_Witness ==
  /\ seg_pc = "split"
  /\ TextLen(paragraph) > chunk_size
  /\ Len(Sentences) = 3
  /\ Len(ChunkTexts) = 2
  /\ FirstSentenceOf(2) = 3
  /\ TextLen(ChunkTexts[1]) <= chunk_size

\* C29: for a paragraph longer than chunk_size, the texts of its chunks joined
\* with single spaces, in chunk order, are the text of the paragraph.
C29_ChunksReproduceParagraph ==
  (seg_pc = "split" /\ TextLen(paragraph) > chunk_size) =>
    JoinWith(ChunkTexts, <<>>) = paragraph

\* ------------------------------------------------------------ short paragraphs
\* C27: detect_paragraphs keeps the cleaned paragraphs of MinParagraphLen (20)
\* characters or more, in order, and drops those of 19 characters or fewer.
C27_MinimumParagraphLength ==
  seg_pc = "paragraphs" =>
    detected = SelectSeq(CleanedParagraphs(page_text),
                         LAMBDA para : TextLen(para) >= MinParagraphLen)

\* ------------------------------------------------------------ markers and citations
\* The new numbers of the returned citations.
NewNums == {UsedCitations[i].new_source_num : i \in 1..Len(UsedCitations)}

\* The markers of the response whose number is valid.
ValidMarkers == {i \in 1..Len(InMarkers) : InMarkers[i].num \in ValidCited}

\* C28: with at least one valid citation, the numbers in the [Source n] markers
\* of the returned text are the new numbers of the returned citations, no more
\* and no fewer, and the returned text has no more markers than the response
\* has markers with a valid number.
C28_MarkersMatchCitations ==
  (Returned /\ ValidCited # {}) =>
    /\ OutNums = NewNums
    /\ Len(OutMarkers) <= Cardinality(ValidMarkers)

\* ------------------------------------------------------------ rewriting again
\* C30: process_response called with the same registry on the text it returned
\* returns, and returns that text unchanged.
C30_RenumberedTextIsFixedPoint ==
  pc = "redone" =>
    /\ processed_again.outcome = "returned"
    /\ processed_again.renumbered_response_text
         = processed_response.renumbered_response_text

====
